---- MODULE Spec2Model ----
(***************************************************************************)
(* Model of the thread-safe bounded FIFO queue of lab.c: a circular buffer *)
(* guarded by one pthread mutex and two condition variables (not_full,     *)
(* not_empty), with a cooperative shutdown.  Threads call enqueue,         *)
(* dequeue, queue_shutdown, is_empty and is_shutdown concurrently; every   *)
(* action below is one step of one thread between two scheduling points.   *)
(***************************************************************************)
EXTENDS Integers, Sequences, FiniteSets

(* ------------------------------ bounds --------------------------------- *)
\* number of caller threads
NumThreads == 3
\* largest capacity handed to queue_init
MaxCapacity == 2
\* item values are 0..MaxValue; 0 is the C null pointer
MaxValue == 1
\* total number of API calls made over a run
MaxCalls == 4

Threads == 1..NumThreads
Capacities == 1..MaxCapacity
NULL == 0
Values == NULL..MaxValue
NoThread == 0
\* content of a slot of the malloc'ed buffer that was never written
Uninit == -1

VARIABLES
    buffer,       \* q->buffer : slot index -> value
    capacity,     \* q->capacity
    size,         \* q->size
    front,        \* q->front
    rear,         \* q->rear
    is_shutdown,  \* q->is_shutdown
    mutex,        \* q->mutex : the owning thread, or NoThread
    not_full,     \* q->not_full : threads suspended in pthread_cond_wait
    not_empty,    \* q->not_empty : threads suspended in pthread_cond_wait
    pc,           \* per thread: position in the function it is executing
    data,         \* per thread: enqueue's argument / dequeue's and the queries' local
                  \* (NULL between calls: the variable lives only during a call)
    ret,          \* per thread: value returned by the last call that returned
    outcome,      \* per thread: which return path the last call took
    seen,         \* per thread: progress counter recorded when the call had to wait
    lastEnq,      \* per thread: return path of the thread's last enqueue
    enqHist,      \* items inserted, in critical-section order
    deqHist,      \* results of dequeue's decisions, in critical-section order
    atShutdown,   \* resident items and Len(deqHist) when is_shutdown was first set
    calls         \* number of API calls started so far

qvars == <<buffer, capacity, size, front, rear, is_shutdown>>
svars == <<mutex, not_full, not_empty>>
tvars == <<pc, data, ret, outcome, seen, lastEnq>>
hvars == <<enqHist, deqHist, atShutdown>>
vars == <<buffer, capacity, size, front, rear, is_shutdown, mutex, not_full,
          not_empty, pc, data, ret, outcome, seen, lastEnq, enqHist, deqHist,
          atShutdown, calls>>

(* ------------------------------ helpers -------------------------------- *)
\* C's int % for a non-negative left operand and a positive right operand
Mod(a, b) == a % b

\* what reading a buffer slot yields: the value written, or anything at all
\* when the slot was never written
ReadSlot(v) == IF v = Uninit THEN Values ELSE {v}

\* the resident items, oldest first: slots front, front+1, ... (mod capacity)
Resident ==
    [i \in 1..size |-> buffer[Mod(front + i - 1, capacity)]]

\* the items that dequeue removed so far, in order
Removed == SelectSeq(deqHist, LAMBDA r : r.kind = "item")
RemovedItems == [i \in 1..Len(Removed) |-> Removed[i].val]

Item(v) == [kind |-> "item", val |-> v]
Sentinel == [kind |-> "sentinel", val |-> NULL]

IsPrefix(s, t) ==
    /\ Len(s) <= Len(t)
    /\ \A i \in 1..Len(s) : s[i] = t[i]

\* a lock that does not exclude: the caller goes on while another thread owns it
Acquire_NoExclusion(t) == mutex' = t

\* pthread_mutex_lock succeeds for thread t
Acquire(t) ==
    /\ mutex = NoThread
    /\ mutex' = t

\* pthread_mutex_unlock by the owner t
Release(t) ==
    /\ mutex = t
    /\ mutex' = NoThread

\* thread t moves to position p
Goto(t, p) == pc' = [pc EXCEPT ![t] = p]

\* a C bool as the int it converts to
Bool(b) == IF b THEN 1 ELSE 0

\* the position a thread suspended at w is at once a signal or a broadcast has
\* woken it: it has still to get the mutex back
WokenPc(w) == IF w = "enq_wait" THEN "enq_woken" ELSE "deq_woken"

\* the same for a thread that woke without a signal
SpuriousPc(w) == IF w = "enq_wait" THEN "enq_spurious" ELSE "deq_spurious"

\* the outcomes of pthread_cond_signal on a condition with waiters ws: the set
\* of threads it wakes, one of the waiters when there is one
Signalled(ws) == IF ws = {} THEN {{}} ELSE {{w} : w \in ws}

\* thread t may start a call: it is between calls, the run's budget of calls is not
\* used up, and the caller threads make their first calls in the order of their
\* numbers (threads are interchangeable, so nothing is lost by it)
CanCall(t) ==
    /\ pc[t] = "idle"
    /\ calls < MaxCalls
    /\ t > 1 => (pc[t - 1] # "idle" \/ outcome[t - 1] # "none")

(* -------------------------------- Init --------------------------------- *)
\* the state queue_init returns
QueueInit(caps) ==
    /\ capacity \in caps
    /\ buffer = [i \in 0..(capacity - 1) |-> Uninit]
    /\ size = 0
    /\ front = 0
    /\ rear = -1
    /\ is_shutdown = FALSE
    /\ mutex = NoThread
    /\ not_full = {}
    /\ not_empty = {}
    /\ pc = [t \in Threads |-> "idle"]
    /\ data = [t \in Threads |-> NULL]
    /\ ret = [t \in Threads |-> NULL]
    /\ outcome = [t \in Threads |-> "none"]
    /\ seen = [t \in Threads |-> -1]
    /\ lastEnq = [t \in Threads |-> "none"]
    /\ enqHist = <<>>
    /\ deqHist = <<>>
    /\ atShutdown = [set |-> FALSE, items |-> <<>>, base |-> 0]
    /\ calls = 0

\* queue_init with a positive capacity
Init == QueueInit(Capacities)

\* the capacities of the degenerate case: queue_init(0) with a malloc(0) that
\* returned a pointer, beside the smallest proper queue
DegenerateCapacities == {0, 1}

\* queue_init with capacity 0 or 1
InitDegenerate == QueueInit(DegenerateCapacities)

(* ------------------------------ enqueue -------------------------------- *)
\* a thread calls enqueue(q, d) and its pthread_mutex_lock(&q->mutex) succeeds
CallEnqueue(t) ==
    /\ CanCall(t)
    /\ Acquire(t)
    /\ \E d \in Values : data' = [data EXCEPT ![t] = d]
    /\ Goto(t, "enq_test")
    /\ calls' = calls + 1
    /\ UNCHANGED <<qvars, not_full, not_empty, hvars, ret, outcome, seen, lastEnq>>

\* enqueue's loop condition comparing with > : a full queue does not block
EnqMustWait_PastFull == size > capacity /\ ~is_shutdown

\* enqueue's loop condition without the shutdown test
EnqMustWait_IgnoresShutdown == size = capacity

\* the loop condition of enqueue
EnqMustWait == size = capacity /\ ~is_shutdown

\* while (size == capacity && !is_shutdown) pthread_cond_wait(&not_full, &mutex):
\* the wait releases the mutex and suspends the thread in one step
EnqTest(t) ==
    /\ pc[t] = "enq_test"
    /\ mutex = t
    /\ IF EnqMustWait
       THEN /\ Release(t)
            /\ not_full' = not_full \cup {t}
            /\ seen' = [seen EXCEPT ![t] = IF @ = -1 THEN Len(Removed) ELSE @]
            /\ Goto(t, "enq_wait")
       ELSE /\ Goto(t, "enq_check")
            /\ UNCHANGED <<mutex, not_full, seen>>
    /\ UNCHANGED <<qvars, not_empty, hvars, data, ret, outcome, lastEnq, calls>>

\* enqueue with an if in place of its while: a woken thread does not re-test
EnqAfterWait_NoRetest == "enq_check"

\* where enqueue continues once pthread_cond_wait has the mutex again
EnqAfterWait == "enq_test"

\* pthread_cond_wait returns: the woken thread has re-acquired the mutex
EnqWoken(t) ==
    /\ pc[t] \in {"enq_woken", "enq_spurious"}
    /\ Acquire(t)
    /\ Goto(t, EnqAfterWait)
    /\ UNCHANGED <<qvars, not_full, not_empty, hvars, data, ret, outcome, seen,
                   lastEnq, calls>>

\* enqueue without its shutdown check
EnqDrops_Never == FALSE

\* enqueue with its shutdown check inverted
EnqDrops_Inverted == ~is_shutdown

\* the branch enqueue takes after its loop: drop the item or insert it
EnqDrops == is_shutdown

\* if (is_shutdown) { unlock; return; }
EnqCheck(t) ==
    /\ pc[t] = "enq_check"
    /\ mutex = t
    /\ IF EnqDrops
       THEN /\ Release(t)
            /\ Goto(t, "idle")
            /\ outcome' = [outcome EXCEPT ![t] = "dropped"]
            /\ lastEnq' = [lastEnq EXCEPT ![t] = "dropped"]
            /\ seen' = [seen EXCEPT ![t] = -1]
            /\ data' = [data EXCEPT ![t] = NULL]
       ELSE /\ Goto(t, "enq_insert")
            /\ UNCHANGED <<mutex, outcome, lastEnq, seen, data>>
    /\ UNCHANGED <<qvars, not_full, not_empty, hvars, ret, calls>>

\* rear advanced without the wrap-around
NextRear_NoWrap == rear + 1

\* the slot enqueue writes
NextRear == Mod(rear + 1, capacity)

\* rear = (rear + 1) % capacity; buffer[rear] = data; size++
EnqInsert(t) ==
    /\ pc[t] = "enq_insert"
    /\ mutex = t
    /\ rear' = NextRear
    /\ buffer' = [buffer EXCEPT ![NextRear] = data[t]]
    /\ size' = size + 1
    /\ enqHist' = Append(enqHist, data[t])
    /\ Goto(t, "enq_signal")
    /\ UNCHANGED <<capacity, front, is_shutdown, svars, data, ret, outcome, seen,
                   lastEnq, deqHist, atShutdown, calls>>

\* enqueue without its pthread_cond_signal
NotEmptySignal_Missing == {{}}

\* what enqueue's pthread_cond_signal(&q->not_empty) may wake
NotEmptySignal == Signalled(not_empty)

\* pthread_cond_signal(&q->not_empty): wakes one waiter when there is one
EnqSignal(t) ==
    /\ pc[t] = "enq_signal"
    /\ mutex = t
    /\ \E W \in NotEmptySignal :
        /\ not_empty' = not_empty \ W
        /\ pc' = [u \in Threads |->
                    IF u = t THEN "enq_unlock"
                    ELSE IF u \in W THEN WokenPc(pc[u])
                    ELSE pc[u]]
    /\ UNCHANGED <<qvars, mutex, not_full, hvars, data, ret, outcome, seen,
                   lastEnq, calls>>

\* pthread_mutex_unlock(&q->mutex); enqueue returns after inserting
EnqUnlock(t) ==
    /\ pc[t] = "enq_unlock"
    /\ Release(t)
    /\ Goto(t, "idle")
    /\ outcome' = [outcome EXCEPT ![t] = "inserted"]
    /\ lastEnq' = [lastEnq EXCEPT ![t] = "inserted"]
    /\ seen' = [seen EXCEPT ![t] = -1]
    /\ data' = [data EXCEPT ![t] = NULL]
    /\ UNCHANGED <<qvars, not_full, not_empty, hvars, ret, calls>>

(* ------------------------------ dequeue -------------------------------- *)
\* a thread calls dequeue(q) and its pthread_mutex_lock(&q->mutex) succeeds
CallDequeue(t) ==
    /\ CanCall(t)
    /\ Acquire(t)
    /\ Goto(t, "deq_test")
    /\ calls' = calls + 1
    /\ UNCHANGED <<qvars, not_full, not_empty, hvars, data, ret, outcome, seen,
                   lastEnq>>

\* dequeue's loop condition without the shutdown test
DeqMustWait_IgnoresShutdown == size = 0

\* dequeue without its loop: it never waits
DeqMustWait_Never == FALSE

\* the loop condition of dequeue
DeqMustWait == size = 0 /\ ~is_shutdown

\* while (size == 0 && !is_shutdown) pthread_cond_wait(&not_empty, &mutex)
DeqTest(t) ==
    /\ pc[t] = "deq_test"
    /\ mutex = t
    /\ IF DeqMustWait
       THEN /\ Release(t)
            /\ not_empty' = not_empty \cup {t}
            /\ seen' = [seen EXCEPT ![t] = IF @ = -1 THEN Len(enqHist) ELSE @]
            /\ Goto(t, "deq_wait")
       ELSE /\ Goto(t, "deq_check")
            /\ UNCHANGED <<mutex, not_empty, seen>>
    /\ UNCHANGED <<qvars, not_full, hvars, data, ret, outcome, lastEnq, calls>>

\* dequeue with an if in place of its while: a woken thread does not re-test
DeqAfterWait_NoRetest == "deq_check"

\* where dequeue continues once pthread_cond_wait has the mutex again
DeqAfterWait == "deq_test"

\* pthread_cond_wait returns: the woken thread has re-acquired the mutex
DeqWoken(t) ==
    /\ pc[t] \in {"deq_woken", "deq_spurious"}
    /\ Acquire(t)
    /\ Goto(t, DeqAfterWait)
    /\ UNCHANGED <<qvars, not_full, not_empty, hvars, data, ret, outcome, seen,
                   lastEnq, calls>>

\* dequeue giving up as soon as the queue is shut down, items resident or not
DeqFindsEmpty_OnShutdown == size = 0 \/ is_shutdown

\* the branch dequeue takes after its loop: nothing to return
DeqFindsEmpty == size = 0

\* if (size == 0) { unlock; return NULL; }
DeqCheck(t) ==
    /\ pc[t] = "deq_check"
    /\ mutex = t
    /\ IF DeqFindsEmpty
       THEN /\ Release(t)
            /\ Goto(t, "idle")
            /\ ret' = [ret EXCEPT ![t] = NULL]
            /\ outcome' = [outcome EXCEPT ![t] = "sentinel"]
            /\ deqHist' = Append(deqHist, Sentinel)
            /\ seen' = [seen EXCEPT ![t] = -1]
       ELSE /\ Goto(t, "deq_remove")
            /\ UNCHANGED <<mutex, ret, outcome, deqHist, seen>>
    /\ UNCHANGED <<qvars, not_full, not_empty, enqHist, atShutdown, data, lastEnq,
                   calls>>

\* dequeue reading the newest item instead of the oldest
ReadIndex_Rear == rear

\* the slot dequeue reads
ReadIndex == front

\* data = buffer[front]; front = (front + 1) % capacity; size--
DeqRemove(t) ==
    /\ pc[t] = "deq_remove"
    /\ mutex = t
    /\ \E d \in ReadSlot(buffer[ReadIndex]) :
        /\ data' = [data EXCEPT ![t] = d]
        /\ deqHist' = Append(deqHist, Item(d))
    /\ front' = Mod(front + 1, capacity)
    /\ size' = size - 1
    /\ Goto(t, "deq_signal")
    /\ UNCHANGED <<buffer, capacity, rear, is_shutdown, svars, ret, outcome, seen,
                   lastEnq, enqHist, atShutdown, calls>>

\* dequeue without its pthread_cond_signal
NotFullSignal_Missing == {{}}

\* what dequeue's pthread_cond_signal(&q->not_full) may wake
NotFullSignal == Signalled(not_full)

\* pthread_cond_signal(&q->not_full): wakes one waiter when there is one
DeqSignal(t) ==
    /\ pc[t] = "deq_signal"
    /\ mutex = t
    /\ \E W \in NotFullSignal :
        /\ not_full' = not_full \ W
        /\ pc' = [u \in Threads |->
                    IF u = t THEN "deq_unlock"
                    ELSE IF u \in W THEN WokenPc(pc[u])
                    ELSE pc[u]]
    /\ UNCHANGED <<qvars, mutex, not_empty, hvars, data, ret, outcome, seen,
                   lastEnq, calls>>

\* pthread_mutex_unlock(&q->mutex); return data
DeqUnlock(t) ==
    /\ pc[t] = "deq_unlock"
    /\ Release(t)
    /\ Goto(t, "idle")
    /\ ret' = [ret EXCEPT ![t] = data[t]]
    /\ outcome' = [outcome EXCEPT ![t] = "item"]
    /\ seen' = [seen EXCEPT ![t] = -1]
    /\ data' = [data EXCEPT ![t] = NULL]
    /\ UNCHANGED <<qvars, not_full, not_empty, hvars, lastEnq, calls>>

\* a thread suspended in pthread_cond_wait wakes without having been signalled
SpuriousWake(t) ==
    /\ pc[t] \in {"enq_wait", "deq_wait"}
    /\ not_full' = not_full \ {t}
    /\ not_empty' = not_empty \ {t}
    /\ Goto(t, SpuriousPc(pc[t]))
    /\ UNCHANGED <<qvars, mutex, hvars, data, ret, outcome, seen, lastEnq, calls>>

(* --------------------------- queue_shutdown ---------------------------- *)
\* a thread calls queue_shutdown(q) and its pthread_mutex_lock(&q->mutex) succeeds
CallShutdown(t) ==
    /\ CanCall(t)
    /\ Acquire(t)
    /\ Goto(t, "sd_set")
    /\ calls' = calls + 1
    /\ UNCHANGED <<qvars, not_full, not_empty, hvars, data, ret, outcome, seen,
                   lastEnq>>

\* a shutdown that flips the flag: a second call re-opens the queue
SdFlagValue_Toggle == ~is_shutdown

\* the value queue_shutdown stores in q->is_shutdown
SdFlagValue == TRUE

\* q->is_shutdown = true
SdSet(t) ==
    /\ pc[t] = "sd_set"
    /\ mutex = t
    /\ is_shutdown' = SdFlagValue
    /\ atShutdown' = IF atShutdown.set THEN atShutdown
                     ELSE [set |-> TRUE, items |-> Resident, base |-> Len(deqHist)]
    /\ Goto(t, "sd_bcast_ne")
    /\ UNCHANGED <<buffer, capacity, size, front, rear, svars, data, ret, outcome,
                   seen, lastEnq, enqHist, deqHist, calls>>

\* pthread_cond_signal in place of pthread_cond_broadcast: one waiter is woken
Broadcast_One(ws) == IF ws = {} THEN {} ELSE {CHOOSE w \in ws : TRUE}

\* the threads a pthread_cond_broadcast on a condition with waiters ws wakes
Broadcast(ws) == ws

\* pthread_cond_broadcast(&q->not_empty)
SdBroadcastNotEmpty(t) ==
    /\ pc[t] = "sd_bcast_ne"
    /\ mutex = t
    /\ not_empty' = not_empty \ Broadcast(not_empty)
    /\ pc' = [u \in Threads |->
                IF u = t THEN "sd_bcast_nf"
                ELSE IF u \in Broadcast(not_empty) THEN WokenPc(pc[u])
                ELSE pc[u]]
    /\ UNCHANGED <<qvars, mutex, not_full, hvars, data, ret, outcome, seen,
                   lastEnq, calls>>

\* pthread_cond_broadcast(&q->not_full)
SdBroadcastNotFull(t) ==
    /\ pc[t] = "sd_bcast_nf"
    /\ mutex = t
    /\ not_full' = not_full \ Broadcast(not_full)
    /\ pc' = [u \in Threads |->
                IF u = t THEN "sd_unlock"
                ELSE IF u \in Broadcast(not_full) THEN WokenPc(pc[u])
                ELSE pc[u]]
    /\ UNCHANGED <<qvars, mutex, not_empty, hvars, data, ret, outcome, seen,
                   lastEnq, calls>>

\* pthread_mutex_unlock(&q->mutex); fprintf(stderr, "Shutdown requested!\n");
\* queue_shutdown returns
SdUnlock(t) ==
    /\ pc[t] = "sd_unlock"
    /\ Release(t)
    /\ Goto(t, "idle")
    /\ outcome' = [outcome EXCEPT ![t] = "shutdown"]
    /\ UNCHANGED <<qvars, not_full, not_empty, hvars, data, ret, seen, lastEnq,
                   calls>>

(* ----------------------- is_empty / is_shutdown ------------------------ *)
\* a thread calls is_empty(q): pthread_mutex_lock(&q->mutex) succeeds and
\* bool empty = (q->size == 0)
CallIsEmpty(t) ==
    /\ CanCall(t)
    /\ Acquire(t)
    /\ data' = [data EXCEPT ![t] = Bool(size = 0)]
    /\ Goto(t, "ie_unlock")
    /\ calls' = calls + 1
    /\ UNCHANGED <<qvars, not_full, not_empty, hvars, ret, outcome, seen, lastEnq>>

\* pthread_mutex_unlock(&q->mutex); return empty
IeUnlock(t) ==
    /\ pc[t] = "ie_unlock"
    /\ Release(t)
    /\ Goto(t, "idle")
    /\ ret' = [ret EXCEPT ![t] = data[t]]
    /\ outcome' = [outcome EXCEPT ![t] = "is_empty"]
    /\ data' = [data EXCEPT ![t] = NULL]
    /\ UNCHANGED <<qvars, not_full, not_empty, hvars, seen, lastEnq, calls>>

\* a thread calls is_shutdown(q): pthread_mutex_lock(&q->mutex) succeeds and
\* bool shutdown = q->is_shutdown
CallIsShutdown(t) ==
    /\ CanCall(t)
    /\ Acquire(t)
    /\ data' = [data EXCEPT ![t] = Bool(is_shutdown)]
    /\ Goto(t, "is_unlock")
    /\ calls' = calls + 1
    /\ UNCHANGED <<qvars, not_full, not_empty, hvars, ret, outcome, seen, lastEnq>>

\* pthread_mutex_unlock(&q->mutex); return shutdown
IsUnlock(t) ==
    /\ pc[t] = "is_unlock"
    /\ Release(t)
    /\ Goto(t, "idle")
    /\ ret' = [ret EXCEPT ![t] = data[t]]
    /\ outcome' = [outcome EXCEPT ![t] = "is_shutdown"]
    /\ data' = [data EXCEPT ![t] = NULL]
    /\ UNCHANGED <<qvars, not_full, not_empty, hvars, seen, lastEnq, calls>>

(* ------------------------------ behaviours ----------------------------- *)
\* the steps thread t takes inside a call it has made
Step(t) ==
    \/ EnqTest(t) \/ EnqWoken(t) \/ EnqCheck(t) \/ EnqInsert(t)
    \/ EnqSignal(t) \/ EnqUnlock(t)
    \/ DeqTest(t) \/ DeqWoken(t) \/ DeqCheck(t) \/ DeqRemove(t)
    \/ DeqSignal(t) \/ DeqUnlock(t)
    \/ SdSet(t) \/ SdBroadcastNotEmpty(t) \/ SdBroadcastNotFull(t)
    \/ SdUnlock(t) \/ IeUnlock(t) \/ IsUnlock(t)

Next ==
    \/ \E t \in Threads : CallEnqueue(t)
    \/ \E t \in Threads : CallDequeue(t)
    \/ \E t \in Threads : CallShutdown(t)
    \/ \E t \in Threads : CallIsEmpty(t)
    \/ \E t \in Threads : CallIsShutdown(t)
    \/ \E t \in Threads : Step(t)
    \/ \E t \in Threads : SpuriousWake(t)

Spec == Init /\ [][Next]_vars

\* the queue when capacity 0 is among the capacities passed to queue_init
SpecDegenerate == InitDegenerate /\ [][Next]_vars

\* every thread that can take a step of its call eventually takes one
FairSpec == Spec /\ \A t \in Threads : WF_vars(Step(t))

\* fair scheduling with a fair mutex: in addition, a thread that
\* pthread_cond_wait has woken and that finds the mutex free again and again
\* eventually gets it
FairLockSpec ==
    FairSpec /\ \A t \in Threads : SF_vars(EnqWoken(t) \/ DeqWoken(t))

(* ------------------------------- claims -------------------------------- *)
\* positions inside enqueue and inside dequeue
EnqPcs == {"enq_test", "enq_wait", "enq_woken", "enq_spurious", "enq_check",
           "enq_insert", "enq_signal", "enq_unlock"}
DeqPcs == {"deq_test", "deq_wait", "deq_woken", "deq_spurious", "deq_check",
           "deq_remove", "deq_signal", "deq_unlock"}

\* thread t returns from enqueue / from dequeue in this step
EnqReturns(t) == pc[t] \in EnqPcs /\ pc'[t] = "idle"
DeqReturns(t) == pc[t] \in DeqPcs /\ pc'[t] = "idle"

\* C1: the items dequeue has returned, in critical-section order, are a prefix of
\* the items enqueue has inserted, in critical-section order
C1_FifoPrefix == IsPrefix(RemovedItems, enqHist)

\* two different items have been dequeued one after the other
C1_Witness ==
    /\ Len(RemovedItems) >= 2
    /\ RemovedItems[1] # RemovedItems[2]

\* C2: whenever no thread holds the mutex, 0 <= size <= capacity
C2_CountInRange == mutex = NoThread => (0 <= size /\ size <= capacity)

\* a woken producer is about to re-test a queue that is still (or again) full
C2_Witness ==
    /\ mutex = NoThread
    /\ ~is_shutdown
    /\ size = capacity
    /\ \E t \in Threads : pc[t] \in {"enq_woken", "enq_spurious"}

\* C3: once the flag is set, every thread suspended in enqueue returns without
\* inserting and every thread suspended in dequeue returns an item or NULL
C3_ShutdownWakesAll ==
    \A t \in Threads :
        /\ (is_shutdown /\ pc[t] \in {"enq_wait", "enq_woken", "enq_spurious"})
              ~> (pc[t] = "idle" /\ outcome[t] = "dropped")
        /\ (is_shutdown /\ pc[t] \in {"deq_wait", "deq_woken", "deq_spurious"})
              ~> (pc[t] = "idle" /\ outcome[t] \in {"item", "sentinel"})

\* a shutdown has set the flag while two producers were suspended on not_full
C3_Witness ==
    /\ is_shutdown
    /\ \E t, u \in Threads :
        /\ t # u
        /\ pc[t] \in {"enq_wait", "enq_woken", "enq_spurious"}
        /\ pc[u] \in {"enq_wait", "enq_woken", "enq_spurious"}

\* C4: once is_shutdown is set no step inserts: enqHist, rear and buffer stay,
\* size does not grow, and an enqueue that returns has dropped its item and left
\* size and front alone
C4_NoInsertAfterShutdown ==
    [][is_shutdown =>
        /\ enqHist' = enqHist
        /\ rear' = rear
        /\ buffer' = buffer
        /\ size' <= size
        /\ \A t \in Threads :
              EnqReturns(t) =>
                  /\ outcome'[t] = "dropped"
                  /\ size' = size
                  /\ front' = front]_vars

\* an enqueue was dropped although the queue had room
C4_Witness ==
    /\ is_shutdown
    /\ size < capacity
    /\ \E t \in Threads : pc[t] = "idle" /\ outcome[t] = "dropped"

\* what dequeue decided, in order, since is_shutdown was first set
AfterShutdown == SubSeq(deqHist, atShutdown.base + 1, Len(deqHist))

\* C5: the k items resident when is_shutdown was set are what the next k dequeues
\* return, in order; every later dequeue returns NULL for "empty"; and once the
\* flag is set no thread suspends in dequeue
C5_DrainThenClose ==
    [][/\ atShutdown'.set =>
            \A i \in 1..Len(AfterShutdown') :
                AfterShutdown'[i] = IF i <= Len(atShutdown'.items)
                                    THEN Item(atShutdown'.items[i])
                                    ELSE Sentinel
       /\ is_shutdown =>
            \A t \in Threads : pc'[t] = "deq_wait" => pc[t] = "deq_wait"]_vars

\* shutdown found items resident, they were all dequeued, and one more dequeue
\* was answered
C5_Witness ==
    /\ atShutdown.set
    /\ Len(atShutdown.items) >= 1
    /\ Len(AfterShutdown) = Len(atShutdown.items) + 1

\* shut down and drained
Closed == is_shutdown /\ size = 0

\* C6: a queue that is shut down and empty stays so, no thread suspends in
\* dequeue any more, and every dequeue that decides returns NULL for "empty"
C6_ClosedIsTerminal ==
    [][Closed =>
        /\ Closed'
        /\ \A t \in Threads :
            /\ pc'[t] = "deq_wait" => pc[t] = "deq_wait"
            /\ (pc[t] \in {"deq_test", "deq_check"} /\ pc'[t] # pc[t]) =>
                  pc'[t] \in {"deq_check", "idle"}
            /\ (pc[t] = "deq_check" /\ pc'[t] = "idle") =>
                  (outcome'[t] = "sentinel" /\ ret'[t] = NULL)]_vars

\* the queue was drained after a shutdown that found items, and a dequeue has
\* since returned NULL for "empty"
C6_Witness ==
    /\ Closed
    /\ Len(atShutdown.items) >= 1
    /\ \E t \in Threads : pc[t] = "idle" /\ outcome[t] = "sentinel"

\* C7 as stated: an enqueue that found the queue full does not return before a
\* dequeue has removed an item
C7_Original ==
    [][\A t \in Threads :
          (EnqReturns(t) /\ seen[t] # -1) => Len(Removed') > seen[t]]_vars

\* C7 as amended: never more than capacity items are inserted and not yet
\* removed, and an enqueue that found the queue full returns only after a
\* dequeue has removed an item (then it has inserted) or after is_shutdown was
\* set (then it has dropped its item)
C7_CapacityBound ==
    [][/\ Len(enqHist') - Len(Removed') <= capacity
       /\ \A t \in Threads :
            (EnqReturns(t) /\ seen[t] # -1) =>
                \/ outcome'[t] = "inserted" /\ Len(Removed') > seen[t]
                \/ outcome'[t] = "dropped" /\ is_shutdown]_vars

\* an enqueue that found the queue full has inserted its item and is about to
\* return
C7_Witness ==
    \E t \in Threads : pc[t] = "enq_unlock" /\ seen[t] # -1

\* C8: a dequeue decides what to return only when an item is resident or the
\* flag is set, and one that found the queue empty and not shut down returns
\* only after an enqueue has inserted an item or is_shutdown was set
C8_EmptyBlock ==
    [][\A t \in Threads :
          /\ (pc[t] = "deq_check" /\ pc'[t] # pc[t]) => (size > 0 \/ is_shutdown)
          /\ (DeqReturns(t) /\ seen[t] # -1) =>
                (Len(enqHist) > seen[t] \/ is_shutdown)]_vars

\* a dequeue that found the queue empty has removed an item and is about to
\* return it
C8_Witness ==
    \E t \in Threads : pc[t] = "deq_unlock" /\ seen[t] # -1

\* C9: the value dequeue returns for a removed item is never the value it
\* returns for "empty after shutdown"
C9_SentinelDistinct ==
    \A t \in Threads :
        (pc[t] = "idle" /\ outcome[t] = "item") => ret[t] # Sentinel.val

\* C10 as stated: after an enqueue has returned, the caller's next is_shutdown
\* check tells the outcome: true when the item was dropped, false when it was
\* inserted
C10_Original ==
    \A t \in Threads :
        (pc[t] = "idle" /\ outcome[t] = "is_shutdown" /\ lastEnq[t] # "none") =>
            (ret[t] = Bool(TRUE) <=> lastEnq[t] = "dropped")

\* C10 as amended: an is_shutdown check that returns false after an enqueue
\* means the item was inserted (a dropped item is always followed by true)
C10_FalseMeansInserted ==
    \A t \in Threads :
        (pc[t] = "idle" /\ outcome[t] = "is_shutdown" /\ lastEnq[t] # "none") =>
            (ret[t] = Bool(FALSE) => lastEnq[t] = "inserted")

\* a caller whose item was dropped has made its is_shutdown check
C10_Witness ==
    \E t \in Threads :
        /\ pc[t] = "idle"
        /\ outcome[t] = "is_shutdown"
        /\ lastEnq[t] = "dropped"

\* the positions between a pthread_mutex_lock (or the return of
\* pthread_cond_wait) and the pthread_mutex_unlock that follows it
CriticalPcs ==
    {"enq_test", "enq_check", "enq_insert", "enq_signal", "enq_unlock",
     "deq_test", "deq_check", "deq_remove", "deq_signal", "deq_unlock",
     "sd_set", "sd_bcast_ne", "sd_bcast_nf", "sd_unlock", "ie_unlock", "is_unlock"}

\* the positions of a thread suspended in pthread_cond_wait or woken and still
\* without the mutex
WaitPcs ==
    {"enq_wait", "enq_woken", "enq_spurious", "deq_wait", "deq_woken",
     "deq_spurious"}

\* C11: at most one thread is inside a critical section and it is the owner of
\* the mutex; a thread suspended in pthread_cond_wait (or woken and not yet
\* resumed) does not own it; a thread that re-tests its loop condition or works
\* on the queue owns it
C11_MutualExclusion ==
    /\ Cardinality({t \in Threads : pc[t] \in CriticalPcs}) <= 1
    /\ \A t \in Threads :
        /\ pc[t] \in CriticalPcs <=> mutex = t
        /\ pc[t] \in WaitPcs => mutex # t

\* a thread is inside its critical section while one thread is suspended and
\* another was woken and waits for the mutex
C11_Witness ==
    \E t, u, v \in Threads :
        /\ pc[t] \in CriticalPcs
        /\ pc[u] \in {"enq_wait", "deq_wait"}
        /\ pc[v] \in {"enq_woken", "enq_spurious", "deq_woken", "deq_spurious"}

\* C12: is_shutdown is false after queue_init and, once true, it is never
\* false again: no step of any function resets it
C12_ShutdownMonotonic ==
    /\ ~is_shutdown
    /\ [][is_shutdown => is_shutdown']_vars

\* the flag is set, a second queue_shutdown has run on the set flag and an
\* is_shutdown call made afterwards has returned true
C12_Witness ==
    /\ is_shutdown
    /\ \E t, u, v \in Threads :
        /\ t # u /\ u # v /\ t # v
        /\ pc[t] = "idle" /\ outcome[t] = "shutdown"
        /\ pc[u] = "idle" /\ outcome[u] = "shutdown"
        /\ pc[v] = "idle" /\ outcome[v] = "is_shutdown" /\ ret[v] = Bool(TRUE)

\* the positions of a thread inside queue_shutdown
SdPcs == {"sd_set", "sd_bcast_ne", "sd_bcast_nf", "sd_unlock"}

\* C13: a queue_shutdown call made when is_shutdown is already true changes
\* none of is_shutdown, size, front, rear, buffer (nor capacity): every step
\* of the call, from its lock to its return, leaves them as they were
C13_ShutdownIdempotent ==
    [][\A t \in Threads :
        (is_shutdown /\ (pc[t] \in SdPcs \/ pc'[t] \in SdPcs))
            => UNCHANGED qvars]_vars

\* two queue_shutdown calls have returned and the items that were resident
\* are still in the queue
C13_Witness ==
    /\ is_shutdown
    /\ size > 0
    /\ Resident = atShutdown.items
    /\ \E t, u \in Threads :
        /\ t # u
        /\ pc[t] = "idle" /\ outcome[t] = "shutdown"
        /\ pc[u] = "idle" /\ outcome[u] = "shutdown"

\* thread t is the only thread inside enqueue
OnlyProducer(t) == \A u \in Threads \ {t} : pc[u] \notin EnqPcs

\* thread t is suspended in enqueue (or woken and waiting for the mutex) on a
\* queue that was full, and a dequeue has just removed the oldest item
PendingEnqueueFreed(t) ==
    /\ pc[t] \in {"enq_wait", "enq_woken", "enq_spurious"}
    /\ \E u \in Threads : pc[u] = "deq_signal" /\ size = capacity - 1
    /\ ~is_shutdown
    /\ OnlyProducer(t)

\* C14: a dequeue unblocks a pending enqueue: when a producer is suspended on
\* the full queue and a dequeue removes the oldest item then, under fair
\* scheduling and unless queue_shutdown is called or another producer
\* competes, the pending enqueue inserts its item (it reaches the unlock that
\* follows the insertion); and every insertion places the item behind all resident items
C14_DequeueUnblocksEnqueue ==
    /\ \A t \in Threads :
        PendingEnqueueFreed(t) ~>
            \/ pc[t] = "enq_unlock"
            \/ is_shutdown
            \/ ~OnlyProducer(t)
    /\ [][\A t \in Threads :
            (pc[t] = "enq_insert" /\ pc'[t] = "enq_signal") =>
                Resident' = Append(Resident, data[t])]_vars

\* capacity 2: the producer that had to wait on the full queue has inserted
\* its item behind the one that stayed, after a dequeue removed the oldest
C14_Witness ==
    \E t \in Threads :
        /\ pc[t] = "enq_unlock" /\ seen[t] # -1
        /\ OnlyProducer(t)
        /\ ~is_shutdown
        /\ capacity = 2 /\ size = 2
        /\ Len(Removed) >= 1
        /\ Resident[2] = data[t]

\* the slots that hold the resident items: front, front+1, ... (mod capacity)
LiveSlots == {Mod(front + i, capacity) : i \in 0..(size - 1)}

\* the items inserted and not yet removed, in insertion order
InsertedNotRemoved == SubSeq(enqHist, Len(Removed) + 1, Len(enqHist))

\* C15: whenever no thread holds the mutex, the resident items are the items
\* inserted and not yet removed, in insertion order, in the slots front,
\* front+1, ..., front+size-1 (mod capacity), and the slot the next insertion
\* writes is (front+size) mod capacity; an insertion never writes a slot that
\* holds a resident item and a removal always reads one that does
C15_CircularLayout ==
    /\ [](mutex = NoThread =>
            /\ size = Len(enqHist) - Len(Removed)
            /\ Resident = InsertedNotRemoved
            /\ Cardinality(LiveSlots) = size
            /\ NextRear = Mod(front + size, capacity))
    /\ [][\A t \in Threads :
            /\ (pc[t] = "enq_insert" /\ pc'[t] = "enq_signal") =>
                    NextRear \notin LiveSlots
            /\ (pc[t] = "deq_remove" /\ pc'[t] = "deq_signal") =>
                    ReadIndex \in LiveSlots]_vars

\* the resident items wrap around the end of the buffer: capacity 2, the
\* older item in slot 1 and the newer one in slot 0, no thread in a call
C15_Witness ==
    /\ mutex = NoThread
    /\ capacity = 2 /\ size = 2 /\ front = 1 /\ rear = 0
    /\ Resident = <<buffer[1], buffer[0]>>
    /\ buffer[1] # buffer[0]

\* C16: dequeue takes its "return NULL" branch only when, at that decision
\* under the mutex, size is 0 and is_shutdown is true: never while an item is
\* resident and never on a queue that is not shut down
C16_SentinelOnlyWhenClosed ==
    [][\A t \in Threads :
        (DeqReturns(t) /\ outcome'[t] = "sentinel") =>
            (mutex = t /\ size = 0 /\ is_shutdown)]_vars

\* after a shutdown that found items resident, a dequeue has returned an item
\* and a later one, by another thread, has taken the "return NULL" branch
C16_Witness ==
    /\ is_shutdown
    /\ atShutdown.items # <<>>
    /\ Len(AfterShutdown) >= 2
    /\ AfterShutdown[1].kind = "item"
    /\ AfterShutdown[Len(AfterShutdown)] = Sentinel
    /\ \E t, u \in Threads :
        /\ t # u
        /\ pc[t] = "idle" /\ outcome[t] = "sentinel"
        /\ pc[u] = "idle" /\ outcome[u] = "item"

\* C17: a thread suspends inside enqueue only if, at the test it makes under
\* the mutex, size = capacity and is_shutdown is false, and inside dequeue only
\* if size = 0 and is_shutdown is false; so once is_shutdown is true no thread
\* newly suspends on not_full or not_empty
C17_SuspensionConditions ==
    [][\A t \in Threads :
        /\ (pc[t] # "enq_wait" /\ pc'[t] = "enq_wait") =>
                (mutex = t /\ size = capacity /\ ~is_shutdown)
        /\ (pc[t] # "deq_wait" /\ pc'[t] = "deq_wait") =>
                (mutex = t /\ size = 0 /\ ~is_shutdown)
        /\ (t \in (not_full' \cup not_empty') \ (not_full \cup not_empty)) =>
                ~is_shutdown]_vars

\* a producer is suspended on not_full and a consumer on not_empty at once
C17_Witness ==
    \E t, u \in Threads :
        /\ pc[t] = "enq_wait" /\ t \in not_full
        /\ pc[u] = "deq_wait" /\ u \in not_empty

\* the threads a pthread_cond_signal or pthread_cond_broadcast has woken from
\* the wait at position w and that have not yet re-acquired the mutex
SignalledAt(w) == {t \in Threads : pc[t] = WokenPc(w)}

\* C18: no lost wakeup for consumers: while is_shutdown is false and no thread
\* holds the mutex, if some consumer is still suspended on not_empty then size
\* is at most the number of consumers that were signalled and have not yet
\* re-acquired the mutex
C18_NoLostWakeupConsumers ==
    (/\ ~is_shutdown
     /\ mutex = NoThread
     /\ \E t \in Threads : pc[t] = "deq_wait")
        => size <= Cardinality(SignalledAt("deq_wait"))

\* an item is resident, one consumer is still suspended and another one was
\* signalled for the item and has not yet taken the mutex
C18_Witness ==
    /\ ~is_shutdown
    /\ mutex = NoThread
    /\ size = 1
    /\ \E t, u \in Threads :
        /\ pc[t] = "deq_wait" /\ t \in not_empty
        /\ pc[u] = "deq_woken"

\* C19: no lost wakeup for producers: while is_shutdown is false and no thread
\* holds the mutex, if some producer is still suspended on not_full then the
\* number of free slots is at most the number of producers that were signalled
\* and have not yet re-acquired the mutex
C19_NoLostWakeupProducers ==
    (/\ ~is_shutdown
     /\ mutex = NoThread
     /\ \E t \in Threads : pc[t] = "enq_wait")
        => capacity - size <= Cardinality(SignalledAt("enq_wait"))

\* a slot is free, one producer is still suspended and another one was
\* signalled for the slot and has not yet taken the mutex
C19_Witness ==
    /\ ~is_shutdown
    /\ mutex = NoThread
    /\ capacity - size = 1
    /\ \E t, u \in Threads :
        /\ pc[t] = "enq_wait" /\ t \in not_full
        /\ pc[u] = "enq_woken"

\* C20: on a queue of capacity 0 size stays 0 and no enqueue
\* inserts or reaches the statement that computes (rear + 1) % capacity; an
\* enqueue or dequeue that tests its loop condition before queue_shutdown
\* suspends; every enqueue returns only after queue_shutdown and without
\* inserting, every dequeue only after queue_shutdown and with NULL for "empty"
C20_DegenerateCapacity ==
    /\ [](capacity = 0 =>
            /\ size = 0
            /\ enqHist = <<>>
            /\ \A t \in Threads :
                pc[t] \notin {"enq_insert", "enq_signal", "enq_unlock",
                              "deq_remove", "deq_signal", "deq_unlock"})
    /\ [][capacity = 0 =>
            \A t \in Threads :
                /\ (pc[t] = "enq_test" /\ pc'[t] # "enq_test") =>
                        (pc'[t] = "enq_wait" <=> ~is_shutdown)
                /\ (pc[t] = "deq_test" /\ pc'[t] # "deq_test") =>
                        (pc'[t] = "deq_wait" <=> ~is_shutdown)
                /\ EnqReturns(t) => (is_shutdown /\ outcome'[t] = "dropped")
                /\ DeqReturns(t) => (is_shutdown /\ outcome'[t] = "sentinel")]_vars

\* capacity 0: after queue_shutdown an enqueue has returned without inserting
\* and a dequeue has returned NULL for "empty"
C20_Witness ==
    /\ capacity = 0
    /\ is_shutdown
    /\ atShutdown.items = <<>>
    /\ \E t, u \in Threads :
        /\ pc[t] = "idle" /\ outcome[t] = "dropped" /\ lastEnq[t] = "dropped"
        /\ pc[u] = "idle" /\ outcome[u] = "sentinel" /\ ret[u] = NULL
    /\ deqHist # <<>>

====
